---- MODULE Spec2Model ----
(***************************************************************************)
(* Model of daemon.py: SolisInverterLogger, the poll-and-publish daemon    *)
(* that bridges a Solis inverter's HTTP status page to an MQTT broker.     *)
(*                                                                         *)
(* The main thread runs main(): mqtt_init_client, create_topics, run.      *)
(* The paho network thread (loop_start) runs the on_connect and            *)
(* on_disconnect callbacks concurrently with it.                           *)
(***************************************************************************)
EXTENDS Integers, Sequences, FiniteSets, TLC

(***************************************************************************)
(* Bounds of the model.                                                    *)
(***************************************************************************)
\* Consecutive read_inverter failures explored in create_topics.
MaxAttempts == 12

(***************************************************************************)
(* Program constants.                                                      *)
(***************************************************************************)
\* time.sleep(60): the delay before the discovery batch is published again.
DiscoveryRetryDelay == 60
\* result.wait_for_publish(30)
PublishWait == 30
\* self.poll_interval, from configuration.yaml (a representative value).
PollInterval == 15

\* None where a string is expected, and the exception-free result.
None == "None"
\* The value of a numeric dict entry: a number x is <<x>>, None is <<>>.
Num(x) == <<x>>
NoValue == <<>>
\* A name the code has not bound yet.
Unset == [unset |-> TRUE]

Min(a, b) == IF a < b THEN a ELSE b

RECURSIVE Pow2(_)
\* 2**n
Pow2(n) == IF n = 0 THEN 1 ELSE 2 * Pow2(n - 1)

(***************************************************************************)
(* The sensor table, self.sensors, in insertion order.                     *)
(***************************************************************************)
SensorKeys == <<"power_current", "power_today", "power_total", "inverter_temperature">>

SensorInfo(key) ==
    CASE key = "power_current"        -> [name |-> "Current Power", unit |-> "W"]
      [] key = "power_today"          -> [name |-> "Today's Production", unit |-> "kWh"]
      [] key = "power_total"          -> [name |-> "Total Production", unit |-> "kWh"]
      [] key = "inverter_temperature" -> [name |-> "Inverter Temperature", unit |-> "degC"]

\* MODEL_LOOKUP.get(model_number): the model name, or None.
ModelLookup(model_number) == IF model_number = <<"518">> THEN "S5-GR3P10K-LV" ELSE None

(***************************************************************************)
(* read_inverter: the HTTP body is a sequence of characters; a field's     *)
(* text is kept as one atom, "NUL" is the padding character \x00 and ";"   *)
(* the delimiter.                                                          *)
(***************************************************************************)
RECURSIVE RStrip(_)
\* str.rstrip("\x00")
RStrip(s) == IF s # <<>> /\ s[Len(s)] = "NUL" THEN RStrip(SubSeq(s, 1, Len(s) - 1)) ELSE s

RECURSIVE LStrip(_)
\* str.lstrip("\x00")
LStrip(s) == IF s # <<>> /\ Head(s) = "NUL" THEN LStrip(Tail(s)) ELSE s

RECURSIVE SplitAcc(_, _, _)
SplitAcc(s, cur, acc) ==
    IF s = <<>> THEN Append(acc, cur)
    ELSE IF Head(s) = ";" THEN SplitAcc(Tail(s), <<>>, Append(acc, cur))
    ELSE SplitAcc(Tail(s), cur \o <<Head(s)>>, acc)

\* str.split(";"): the fields, each the sequence of atoms between delimiters.
Split(s) == SplitAcc(s, <<>>, <<>>)

\* Numbers are counted in units of 1e-4 so that round(x, 3) is not the identity.
FloatTable ==
    [t \in {"23.4", "4.321", "4.3216", "98765.0", "1500", "0"} |->
        CASE t = "23.4"    -> 234000
          [] t = "4.321"   -> 43210
          [] t = "4.3216"  -> 43216
          [] t = "98765.0" -> 987650000
          [] t = "1500"    -> 15000000
          [] t = "0"       -> 0]

IntTable == [t \in {"1500", "0"} |-> IF t = "1500" THEN 1500 ELSE 0]

\* A field is the text of one atom; the empty field and a field of several
\* atoms are not numbers.
IsFloat(f) == Len(f) = 1 /\ f[1] \in DOMAIN FloatTable
IsInt(f) == Len(f) = 1 /\ f[1] \in DOMAIN IntTable
FloatOf(f) == FloatTable[f[1]]
IntOf(f) == IntTable[f[1]]

\* round(x, 3) on a number counted in units of 1e-4.
Round3(x) == ((x + 5) \div 10) * 10

\* str.lower() of the alert token.
Lower(f) ==
    IF f = <<"No">> \/ f = <<"NO">> \/ f = <<"no">> THEN "no"
    ELSE IF f = <<"Yes">> \/ f = <<"YES">> \/ f = <<"yes">> THEN "yes"
    ELSE "other"

Failure(exc) == [ok |-> FALSE, exc |-> exc]

\* The dict d built from the split response.
Decode(f) ==
    [ok |-> TRUE,
     d  |-> [serial_number        |-> f[1],
             model_number         |-> f[3],
             firmware_version     |-> f[2],
             inverter_temperature |-> Num(FloatOf(f[4])),
             power_current        |-> Num(IntOf(f[5])),
             power_today          |-> Num(Round3(FloatOf(f[6]))),
             power_total          |-> IF f[7] # <<"d">> THEN Num(FloatOf(f[7])) ELSE NoValue,
             alerts_enabled       |-> IF Lower(f[8]) = "no" THEN "False"
                                      ELSE IF Lower(f[8]) = "yes" THEN "True" ELSE None]]

\* read_inverter on one HTTP exchange: the dict, or the exception raised.
\* The statements run in source order, so the first failing one decides.
read_inverter(resp) ==
    IF resp.http # "ok" THEN Failure("RequestException")
    ELSE LET f == Split(LStrip(RStrip(resp.body))) IN
         IF Len(f) < 3 THEN Failure("IndexError")
         ELSE IF Len(f) < 4 THEN Failure("IndexError")
         ELSE IF ~IsFloat(f[4]) THEN Failure("ValueError")
         ELSE IF Len(f) < 5 THEN Failure("IndexError")
         ELSE IF ~IsInt(f[5]) THEN Failure("ValueError")
         ELSE IF Len(f) < 6 THEN Failure("IndexError")
         ELSE IF ~IsFloat(f[6]) THEN Failure("ValueError")
         ELSE IF Len(f) < 7 THEN Failure("IndexError")
         ELSE IF f[7] # <<"d">> /\ ~IsFloat(f[7]) THEN Failure("ValueError")
         ELSE IF Len(f) < 8 THEN Failure("IndexError")
         ELSE Decode(f)

\* The body of a response with the given field texts, NUL padded on both sides.
Body(texts) ==
    LET RECURSIVE Join(_)
        Join(fs) == IF Len(fs) = 0 THEN <<>>
                    ELSE IF Len(fs) = 1 THEN <<fs[1]>>
                    ELSE <<fs[1], ";">> \o Join(Tail(fs))
    IN <<"NUL">> \o Join(texts) \o <<"NUL", "NUL">>

Ok(texts) == [http |-> "ok", body |-> Body(texts)]

\* The HTTP exchanges the inverter is driven with.
Responses ==
    { [http |-> "error", body |-> <<>>],
      Ok(<<"SN1", "1.2.3", "518", "23.4", "1500", "4.321", "98765.0", "No">>),
      Ok(<<"SN1", "1.2.3", "518", "23.4", "1500", "4.321", "d", "No">>),
      Ok(<<"SN1", "1.2.3", "518", "23.4", "0", "4.3216", "d", "Yes">>),
      Ok(<<"SN2", "1.2.3", "777", "23.4", "1500", "4.321", "98765.0", "x">>),
      Ok(<<"SN1", "1.2.3", "518", "23.4", "1500", "4.321", "98765.0">>),
      Ok(<<"SN1", "1.2.3", "518", "23.4", "1500", "4.321", "98765.0", "No", "extra">>),
      Ok(<<"SN1", "1.2.3", "518", "hot", "1500", "4.321", "98765.0", "No">>) }

\* What read_inverter returns or raises on each of them.
ReadResults == {read_inverter(resp) : resp \in Responses}

\* len(response_split) of an exchange (0: there is no body to split).
FieldCount(resp) ==
    IF resp.http # "ok" THEN 0 ELSE Len(Split(LStrip(RStrip(resp.body))))

\* One call of read_inverter: the number of fields the body held and the result.
Exchanges == {[fields |-> FieldCount(resp), r |-> read_inverter(resp)] : resp \in Responses}

\* The operator's interrupt (SIGINT) arrives while read_inverter is running:
\* KeyboardInterrupt is raised in the main thread.
Interrupted == [fields |-> 0, r |-> Failure("KeyboardInterrupt")]

PollOutcomes == Exchanges \cup {Interrupted}

(***************************************************************************)
(* make_ha_topic: one discovery descriptor (topic, msg).  The f-strings    *)
(* are kept as tuples of their parts.                                      *)
(***************************************************************************)
DeviceClass(unit) ==
    IF unit = "kWh" THEN "energy"
    ELSE IF unit = "W" THEN "power"
    ELSE IF unit = "degC" THEN "temperature"
    ELSE None

\* A table that gives every unit the state class of a measurement.
StateClass_AllMeasurement(unit) ==
    IF unit = "kWh" \/ unit = "W" \/ unit = "degC" THEN "measurement" ELSE None

StateClass(unit) ==
    IF unit = "kWh" THEN "total_increasing"
    ELSE IF unit = "W" THEN "measurement"
    ELSE IF unit = "degC" THEN "measurement"
    ELSE None

\* f"solismqtt/{serial_number}"
StateTopic(serial_number) == <<"solismqtt", serial_number>>

make_ha_topic(metadata, internal_name, external_name, unit) ==
    LET sn    == metadata.serial_number
        model == IF ModelLookup(metadata.model_number) # None
                 THEN <<ModelLookup(metadata.model_number)>>
                 ELSE metadata.model_number
    IN IF DeviceClass(unit) = None \/ StateClass(unit) = None
       THEN "AssertionError"
       ELSE [topic |-> <<"homeassistant", "sensor", sn, internal_name, "config">>,
             msg   |-> [device |-> [identifiers  |-> <<"solismqtt", model, sn>>,
                                    manufacturer |-> "Solis",
                                    model        |-> model,
                                    name         |-> "Solar Inverter",
                                    sw_version   |-> metadata.firmware_version],
                        device_class        |-> DeviceClass(unit),
                        name                |-> external_name,
                        state_class         |-> StateClass(unit),
                        state_topic         |-> StateTopic(sn),
                        unique_id           |-> <<sn, internal_name, "solismqtt">>,
                        unit_of_measurement |-> unit,
                        value_template      |-> <<"value_json", internal_name>>,
                        expire_after        |-> IF StateClass(unit) = "total_increasing"
                                                THEN "0" ELSE "120",
                        availability_mode   |-> IF StateClass(unit) = "total_increasing"
                                                THEN "latest" ELSE "any"]]

\* metadata.get(internal_name) != None  /  state.get(sensor_name) != None
\* A truthiness test (`if metadata.get(internal_name):`) in place of `!= None`.
Present_Truthy(reading, key) == reading[key] # NoValue /\ reading[key] # Num(0)

Present(reading, key) == reading[key] # NoValue

\* The sensor keys of the table whose value the reading carries, in table order.
PresentKeys(reading) == SelectSeq(SensorKeys, LAMBDA k : Present(reading, k))

\* create_topics: the tuple mqtt_topics built from the first reading.
BuildTopics(metadata) ==
    LET ks == PresentKeys(metadata)
    IN [i \in 1..Len(ks) |->
          make_ha_topic(metadata, ks[i], SensorInfo(ks[i]).name, SensorInfo(ks[i]).unit)]

\* run: the dict `topic` projected from one reading, as its items in order.
Project(state) ==
    LET ks == PresentKeys(state)
    IN [i \in 1..Len(ks) |-> <<ks[i], state[ks[i]]>>]

\* The keys of a telemetry payload / of the announced descriptors.
PayloadKeys(payload) == {payload[i][1] : i \in 1..Len(payload)}
AnnouncedKeys(topics) == {topics[i].topic[4] : i \in 1..Len(topics)}

(***************************************************************************)
(* create_topics: the startup backoff.                                     *)
(***************************************************************************)
\* The argument of time.sleep after a failed read with `attempts` failures before it.
\* A backoff that is not capped.
BackoffWait_Uncapped(n) == Pow2(n)

BackoffWait(n) == IF Pow2(n) > 600 THEN 600 ELSE Pow2(n)

\* `except:` of the startup loop: where the exception raised by read_inverter leads.
\* An except clause that names the HTTP client's exceptions only.
StartingCatch_RequestsOnly(exc) == IF exc = "RequestException" THEN "start_sleep" ELSE "exited"

StartingCatch(exc) == "start_sleep"

\* `except:` of the discovery loop: where an exception leaving mqtt_publish leads.
\* A handler that goes back to the startup loop and reads the inverter again.
DiscoveryCatch_Repoll(exc) == "start_sleep"

DiscoveryCatch(exc) == "disc_sleep"

\* `except:` of the steady-state loop.
\* An except clause that names the HTTP client's exceptions only.
RunCatch_RequestsOnly(exc) == IF exc = "RequestException" THEN "run_sleep" ELSE "exited"

\* A handler that polls again at once, within the cycle.
RunCatch_RetryNow(exc) == "run_poll"

RunCatch(exc) == "run_sleep"

\* The retain argument of client.publish: mqtt_publish(mqtt_topics, True) in
\* create_topics, the default retain=False of mqtt_publish in run.
DiscoveryRetain == TRUE

\* A default of retain=True.
RetainDefault_Set == TRUE

RetainDefault == FALSE

\* The topic of the telemetry message: self.state_topic, whatever the reading says.
\* A topic derived from the reading of the cycle.
TelemetryTopic_FromReading(self_state_topic, reading) == StateTopic(reading.serial_number)

TelemetryTopic(self_state_topic, reading) == self_state_topic

(***************************************************************************)
(* mqtt_publish, one message of the batch.                                 *)
(*                                                                         *)
(* Outcome of client.publish + result.wait_for_publish(30):                *)
(*   "published"     the wait returns, the message was delivered           *)
(*   "timeout"       the wait returns after 30 s without the delivery      *)
(*                   (paho's wait_for_publish returns None on timeout)     *)
(*   "RuntimeError"  the wait raises RuntimeError (publish rc > 0)         *)
(*   "ValueError"    publish or the wait raises another exception          *)
(*   "KeyboardInterrupt"  the operator's interrupt arrives during the wait *)
(* Outcome of requests.get(self.uptime_uri): "ok", "RequestException", or  *)
(* "KeyboardInterrupt" when the interrupt arrives during the GET.          *)
(***************************************************************************)
PublishOutcomes == {"published", "timeout", "RuntimeError", "ValueError", "KeyboardInterrupt"}
PingOutcomes == {"ok", "RequestException", "KeyboardInterrupt"}

\* The try statement's `else:` clause runs: the wait returned without raising.
WaitReturned(outcome) == outcome \in {"published", "timeout"}

\* `except RuntimeError as e:` handles the exception (and logs the error).
HandledInPublish(outcome) == outcome = "RuntimeError"

\* What one iteration of the for loop does with the outcomes:
\*   logged: logger.error was called;  ping: the liveness GET was issued and how
\*   it ended;  raised: the exception that leaves mqtt_publish, or None.
PublishOne(outcome, pingOutcome) ==
    IF WaitReturned(outcome)
    THEN [logged |-> FALSE,
          ping   |-> IF pingOutcome = "ok" THEN "ok"
                     ELSE IF pingOutcome = "KeyboardInterrupt" THEN "interrupted"
                     ELSE "failed",
          raised |-> IF pingOutcome = "ok" THEN None ELSE pingOutcome]
    ELSE IF HandledInPublish(outcome)
    THEN [logged |-> TRUE, ping |-> "none", raised |-> None]
    ELSE [logged |-> FALSE, ping |-> "none", raised |-> outcome]

(***************************************************************************)
(* mqtt_on_connect                                                         *)
(***************************************************************************)
ReasonCodes == {0, 128, 135}

\* "logged": the info line is written; "raise": the Exception is raised, in the
\* network thread that runs the callback.
mqtt_on_connect(reason_code) == IF reason_code > 0 THEN "raise" ELSE "logged"

(***************************************************************************)
(* mqtt_on_disconnect: the warning is logged in the network thread; the    *)
(* result is the position of the main thread after the callback.           *)
(***************************************************************************)
\* A callback that ends the process.
mqtt_on_disconnect_Exit(position) == "exited"

mqtt_on_disconnect(position) == position

(***************************************************************************)
(* State.                                                                  *)
(***************************************************************************)
VARIABLES
    pc,           \* position of the main thread
    connState,    \* the broker session: "none", "connecting", "connected", "failed"
    attempts,     \* create_topics: attempts
    sleeps,       \* the arguments of time.sleep in the startup loop, in order
    sleepFor,     \* the argument of the time.sleep in progress (0: none)
    metadata,     \* create_topics: metadata, the first reading
    state_topic,  \* self.state_topic
    mqtt_topics,  \* create_topics: mqtt_topics
    idx,          \* mqtt_publish: index of the message being published
    topic,        \* run: the dict `topic` of the current cycle
    caught,       \* the exception the current loop iteration caught, or None
    lastPub,      \* the latest publish: what was sent and how it ended
    delivered,    \* broker: the discovery topics whose message it holds
    passFailed,   \* a publish of the current discovery pass was not delivered
    state,        \* run: state, the reading of the current cycle
    fields,       \* len(response_split) of the latest read_inverter call
    polls,        \* read_inverter calls of the current steady-state cycle
    pubs          \* client.publish calls of the current steady-state cycle

vars == <<pc, connState, attempts, sleeps, sleepFor, metadata, state_topic,
          mqtt_topics, idx, topic, caught, lastPub, delivered, passFailed,
          state, fields, polls, pubs>>

NoPub == [kind |-> "none"]

Phase ==
    CASE pc \in {"start_poll", "start_sleep"} -> "Starting"
      [] pc \in {"disc_publish", "disc_sleep"} -> "Discovering"
      [] pc \in {"run_poll", "run_publish", "run_sleep"} -> "SteadyState"
      [] OTHER -> pc

Init ==
    /\ pc = "main"
    /\ connState = "none"
    /\ attempts = 0
    /\ sleeps = <<>>
    /\ sleepFor = 0
    /\ metadata = Unset
    /\ state_topic = <<>>
    /\ mqtt_topics = <<>>
    /\ idx = 0
    /\ topic = <<>>
    /\ caught = None
    /\ lastPub = NoPub
    /\ delivered = {}
    /\ passFailed = FALSE
    /\ state = Unset
    /\ fields = 0
    /\ polls = 0
    /\ pubs = 0

(***************************************************************************)
(* main / mqtt_init_client: connect either returns or raises (the process  *)
(* exits with the traceback); loop_start starts the network thread.        *)
(***************************************************************************)
MqttInitClient ==
    /\ pc = "main"
    /\ \E r \in {"ok", "OSError", "KeyboardInterrupt"} :
         IF r = "ok"
         THEN /\ pc' = "start_poll"
              /\ connState' = "connecting"
              /\ caught' = caught
         ELSE /\ pc' = "exited"
              /\ connState' = "none"
              /\ caught' = r
    /\ UNCHANGED <<attempts, sleeps, sleepFor, metadata, state_topic, mqtt_topics,
                   idx, topic, lastPub, delivered, passFailed, state, fields, polls, pubs>>

\* Network thread: the connect acknowledgement arrives.
MqttOnConnect ==
    /\ connState = "connecting"
    /\ \E rc \in ReasonCodes :
         connState' = IF mqtt_on_connect(rc) = "raise" THEN "failed" ELSE "connected"
    /\ UNCHANGED <<pc, attempts, sleeps, sleepFor, metadata, state_topic, mqtt_topics,
                   idx, topic, caught, lastPub, delivered, passFailed, state, fields, polls,
                   pubs>>

\* Network thread: the connection is lost; the warning is logged and the
\* transport connects again.
MqttOnDisconnect ==
    /\ connState = "connected"
    /\ connState' = "connecting"
    /\ pc' = mqtt_on_disconnect(pc)
    /\ UNCHANGED <<attempts, sleeps, sleepFor, metadata, state_topic, mqtt_topics,
                   idx, topic, caught, lastPub, delivered, passFailed, state, fields, polls,
                   pubs>>

(***************************************************************************)
(* create_topics, the startup loop.                                        *)
(***************************************************************************)
StartPollOk ==
    /\ pc = "start_poll"
    /\ \E x \in PollOutcomes :
         /\ x.r.ok
         /\ fields' = x.fields
         /\ metadata' = x.r.d
         /\ state_topic' = StateTopic(x.r.d.serial_number)
         /\ mqtt_topics' = BuildTopics(x.r.d)
    /\ idx' = 1
    /\ pc' = "disc_publish"
    /\ caught' = None
    /\ passFailed' = FALSE
    \* attempts is dead once the loop is left: it is dropped here, and the
    \* record of the loop's sleeps with it.
    /\ attempts' = 0
    /\ sleeps' = <<>>
    /\ UNCHANGED <<connState, sleepFor, topic, lastPub, delivered, state, polls, pubs>>

StartPollFail ==
    /\ pc = "start_poll"
    /\ attempts < MaxAttempts
    /\ \E x \in PollOutcomes :
         /\ ~x.r.ok
         /\ fields' = x.fields
         /\ caught' = x.r.exc
         /\ pc' = StartingCatch(x.r.exc)
    /\ sleepFor' = BackoffWait(attempts)
    /\ sleeps' = Append(sleeps, BackoffWait(attempts))
    /\ UNCHANGED <<connState, attempts, metadata, state_topic, mqtt_topics, idx, topic,
                   lastPub, delivered, passFailed, state, polls, pubs>>

\* The sleep ends; attempts += 1.
StartWake ==
    /\ pc = "start_sleep"
    /\ attempts' = attempts + 1
    /\ sleepFor' = 0
    /\ caught' = None
    /\ pc' = "start_poll"
    /\ UNCHANGED <<connState, sleeps, metadata, state_topic, mqtt_topics, idx, topic,
                   lastPub, delivered, passFailed, state, fields, polls, pubs>>

(***************************************************************************)
(* create_topics, the discovery loop: mqtt_publish(mqtt_topics, True).     *)
(***************************************************************************)
\* The outcomes the broker session allows: a delivery needs an accepted session.
Possible(outcome) == outcome = "published" => connState = "connected"

PublishDiscovery ==
    /\ pc = "disc_publish"
    /\ \E outcome \in PublishOutcomes, pingOutcome \in PingOutcomes :
         LET r == PublishOne(outcome, pingOutcome)
             t == mqtt_topics[idx].topic
         IN
         /\ Possible(outcome)
         /\ lastPub' = [kind |-> "discovery", topic |-> t,
                        payload |-> mqtt_topics[idx].msg, retain |-> DiscoveryRetain,
                        outcome |-> outcome, logged |-> r.logged, ping |-> r.ping]
         /\ delivered' = IF outcome = "published" THEN delivered \cup {t} ELSE delivered
         /\ passFailed' = (passFailed \/ outcome # "published")
         /\ caught' = r.raised
         /\ IF r.raised # None
            THEN /\ pc' = DiscoveryCatch(r.raised)
                 /\ sleepFor' = DiscoveryRetryDelay
                 /\ idx' = idx
            ELSE /\ sleepFor' = 0
                 /\ IF idx < Len(mqtt_topics)
                    THEN pc' = pc /\ idx' = idx + 1
                    ELSE pc' = "run_poll" /\ idx' = 0
    /\ UNCHANGED <<connState, attempts, sleeps, metadata, state_topic, mqtt_topics, topic,
                   state, fields, polls, pubs>>

\* The 60 s sleep ends; the loop publishes the batch again from its first message.
DiscoveryWake ==
    /\ pc = "disc_sleep"
    /\ pc' = "disc_publish"
    /\ idx' = 1
    /\ sleepFor' = 0
    /\ caught' = None
    /\ passFailed' = FALSE
    /\ UNCHANGED <<connState, attempts, sleeps, metadata, state_topic, mqtt_topics, topic,
                   lastPub, delivered, state, fields, polls, pubs>>

(***************************************************************************)
(* run, the steady-state loop.                                             *)
(***************************************************************************)
RunPollOk ==
    /\ pc = "run_poll"
    /\ \E x \in PollOutcomes :
         /\ x.r.ok
         /\ fields' = x.fields
         /\ state' = x.r.d
         /\ topic' = Project(x.r.d)
    /\ polls' = polls + 1
    /\ pc' = "run_publish"
    /\ idx' = 1
    /\ UNCHANGED <<connState, attempts, sleeps, sleepFor, metadata, state_topic,
                   mqtt_topics, caught, lastPub, delivered, passFailed, pubs>>

RunPollFail ==
    /\ pc = "run_poll"
    /\ \E x \in PollOutcomes :
         /\ ~x.r.ok
         /\ fields' = x.fields
         /\ caught' = x.r.exc
         /\ pc' = RunCatch(x.r.exc)
    /\ polls' = polls + 1
    /\ sleepFor' = PollInterval
    /\ UNCHANGED <<connState, attempts, sleeps, metadata, state_topic, mqtt_topics, idx,
                   topic, lastPub, delivered, passFailed, state, pubs>>

\* mqtt_publish(((self.state_topic, json.dumps(topic)), )), then the sleep begins.
PublishTelemetry ==
    /\ pc = "run_publish"
    /\ \E outcome \in PublishOutcomes, pingOutcome \in PingOutcomes :
         LET r == PublishOne(outcome, pingOutcome) IN
         /\ Possible(outcome)
         /\ lastPub' = [kind |-> "telemetry",
                        topic |-> TelemetryTopic(state_topic, state),
                        payload |-> topic, retain |-> RetainDefault,
                        outcome |-> outcome, logged |-> r.logged, ping |-> r.ping]
         /\ caught' = r.raised
         /\ pc' = IF r.raised # None THEN RunCatch(r.raised) ELSE "run_sleep"
    /\ pubs' = pubs + 1
    /\ idx' = 0
    /\ sleepFor' = PollInterval
    /\ UNCHANGED <<connState, attempts, sleeps, metadata, state_topic, mqtt_topics, topic,
                   delivered, passFailed, state, fields, polls>>

\* time.sleep(self.poll_interval) ends; the next cycle starts.
RunWake ==
    /\ pc = "run_sleep"
    /\ pc' = "run_poll"
    /\ sleepFor' = 0
    /\ caught' = None
    /\ polls' = 0
    /\ pubs' = 0
    /\ UNCHANGED <<connState, attempts, sleeps, metadata, state_topic, mqtt_topics, idx,
                   topic, lastPub, delivered, passFailed, state, fields>>

(***************************************************************************)
(* The operator: the interrupt arrives while the main thread is in a       *)
(* time.sleep.  The sleeps of create_topics are inside the except clauses  *)
(* and the sleep of run is outside the try statement, so KeyboardInterrupt *)
(* leaves main and the process exits.                                      *)
(***************************************************************************)
SleepInterrupted ==
    /\ pc \in {"start_sleep", "disc_sleep", "run_sleep"}
    /\ pc' = "exited"
    /\ caught' = "KeyboardInterrupt"
    /\ UNCHANGED <<connState, attempts, sleeps, sleepFor, metadata, state_topic,
                   mqtt_topics, idx, topic, lastPub, delivered, passFailed, state, fields,
                   polls, pubs>>

MainThread ==
    \/ MqttInitClient
    \/ StartPollOk
    \/ StartPollFail
    \/ StartWake
    \/ PublishDiscovery
    \/ DiscoveryWake
    \/ RunPollOk
    \/ RunPollFail
    \/ PublishTelemetry
    \/ RunWake

NetworkThread ==
    \/ MqttOnConnect
    \/ MqttOnDisconnect

Operator == SleepInterrupted

Next == MainThread \/ NetworkThread \/ Operator

Spec == Init /\ [][Next]_vars

\* The main thread is a running thread and each of its blocking calls returns;
\* the inverter, asked again and again, eventually answers.
FairSpec == Spec /\ WF_vars(MainThread) /\ SF_vars(StartPollOk)

(***************************************************************************)
(* Steps of the main thread that issue one publish (client.publish).       *)
(***************************************************************************)
PublishIssued ==
    /\ pc \in {"disc_publish", "run_publish"}
    /\ <<pc, idx>>' # <<pc, idx>>

(***************************************************************************)
(* Properties.                                                             *)
(***************************************************************************)

\* C1: in the startup loop the sleep after the k-th consecutive failed read
\* (k from 0) is min(2^k, 600) seconds; the waits never decrease and never
\* exceed 600.
C1_BackoffIsMinPow2Ceiling ==
    /\ \A k \in 1..Len(sleeps) :
          /\ sleeps[k] = Min(Pow2(k - 1), 600)
          /\ sleeps[k] <= 600
          /\ k > 1 => sleeps[k] >= sleeps[k - 1]
    /\ pc = "start_sleep" => sleepFor = Min(Pow2(attempts), 600)

\* Eleven failures in a row: the waits 1, 2, ..., 512 and then 600.
C1_Witness ==
    /\ Len(sleeps) >= 11
    /\ SubSeq(sleeps, 1, 11) = <<1, 2, 4, 8, 16, 32, 64, 128, 256, 512, 600>>

\* C2: in Starting no failure of read_inverter ends the process or advances the
\* phase; the loop keeps polling, the phase advances to Discovering exactly when
\* a poll has succeeded, and it does so eventually once the inverter answers.
C2_StartingRetriesUntilFirstReading ==
    /\ [][pc = "start_poll" => Phase' \in {"Starting", "Discovering"}]_vars
    /\ [][(pc = "start_poll" /\ caught' # None) => pc' = "start_sleep"]_vars
    /\ [][pc = "start_sleep" =>
            (pc' \in {"start_sleep", "start_poll"} \/ SleepInterrupted)]_vars
    /\ [](Phase = "Starting" => metadata = Unset)
    /\ [](Phase \in {"Discovering", "SteadyState"} => metadata # Unset)
    /\ (Phase = "Starting" ~> (Phase = "Discovering" \/ pc = "exited"))

\* A read failed by a decoding error and the loop is waiting to poll again.
C2_Witness == pc = "start_sleep" /\ caught = "IndexError" /\ attempts >= 3

\* C5: in SteadyState no failure inside a cycle ends the loop: every cycle,
\* failed or not, ends in the sleep of the poll interval, and the next poll
\* follows.
C5_SteadyStateNeverStops ==
    /\ [][(pc = "run_poll" \/ pc = "run_publish") => Phase' = "SteadyState"]_vars
    /\ [][pc = "run_sleep" => (Phase' = "SteadyState" \/ SleepInterrupted)]_vars
    /\ [](pc = "run_sleep" => sleepFor = PollInterval)
    /\ (Phase = "SteadyState" ~> pc = "run_sleep")
    /\ (pc = "run_sleep" ~> (pc = "run_poll" \/ pc = "exited"))

\* A cycle whose liveness ping failed has ended and the next poll is due.
C5_Witness ==
    /\ pc = "run_poll"
    /\ lastPub.kind = "telemetry"
    /\ lastPub.ping = "failed"

\* C3: no telemetry publish is issued before every discovery descriptor of the
\* batch has been delivered to the broker and acknowledged.
C3_DiscoveryLandsBeforeTelemetry ==
    lastPub.kind = "telemetry" =>
        \A i \in 1..Len(mqtt_topics) : mqtt_topics[i].topic \in delivered

\* C4: when the publish of a descriptor fails (error or no acknowledgement) the
\* whole batch is published again after 60 s, until one pass publishes every
\* descriptor: Discovering never ends with a pass in which a publish failed.
C4_FailedPassIsRetried == Phase = "SteadyState" => ~passFailed

\* C6: a publish whose acknowledgement does not arrive within the wait is a
\* failure: it is logged as failed and not treated as a confirmed delivery.
C6_TimeoutIsReportedAsFailure ==
    (lastPub.kind # "none" /\ lastPub.outcome = "timeout") =>
        (lastPub.logged /\ lastPub.ping = "none")

\* C7: the liveness ping is sent only after a publish the broker confirmed.
C7_PingOnlyAfterConfirmedPublish ==
    (lastPub.kind # "none" /\ lastPub.ping # "none") => lastPub.outcome = "published"

\* C8: a failure of the liveness ping does not abort mqtt_publish: the batch
\* goes on, the discovery batch is not published again because of it and the
\* steady-state cycle is not reported as failed.
C8_PingFailureDoesNotAffectPublishing ==
    [][(PublishIssued /\ lastPub'.ping = "failed") =>
          (caught' = None /\ pc' # "disc_sleep")]_vars

\* C9: after a connect acknowledgement with a non-zero reason code the main
\* thread issues no publish on that session.
C9_NoPublishOnFailedSession == [][connState = "failed" => ~PublishIssued]_vars

\* C10: every key of every telemetry payload has a discovery descriptor built
\* from the first reading: a key absent from the first reading never appears
\* in a later payload.
C10_PayloadKeysAreAnnounced ==
    /\ metadata # Unset =>
          \A i \in 1..Len(SensorKeys) :
             ~Present(metadata, SensorKeys[i]) =>
                 SensorKeys[i] \notin AnnouncedKeys(mqtt_topics)
    /\ lastPub.kind = "telemetry" =>
          PayloadKeys(lastPub.payload) \subseteq AnnouncedKeys(mqtt_topics)

\* C11: the sensor keys projected from a reading are exactly the keys of the
\* sensor table whose value is not None: each has exactly one discovery
\* descriptor (first reading) and exactly one key of the telemetry payload
\* (steady-state reading); a value of zero is present, an absent key is in neither.
C11_ProjectedKeysAreThePresentKeys ==
    /\ metadata # Unset =>
          \A i \in 1..Len(SensorKeys) :
             Cardinality({j \in 1..Len(mqtt_topics) :
                             mqtt_topics[j].topic[4] = SensorKeys[i]})
                = IF metadata[SensorKeys[i]] # NoValue THEN 1 ELSE 0
    /\ (pc = "run_publish" \/ (pc = "run_sleep" /\ lastPub.kind = "telemetry")) =>
          LET payload == IF pc = "run_publish" THEN topic ELSE lastPub.payload IN
          /\ \A i \in 1..Len(SensorKeys) :
                Cardinality({j \in 1..Len(payload) : payload[j][1] = SensorKeys[i]})
                   = IF state[SensorKeys[i]] # NoValue THEN 1 ELSE 0
          /\ \A j \in 1..Len(payload) : payload[j][2] = state[payload[j][1]]

\* The first reading and the reading of the cycle both report a power of zero
\* and no total: three descriptors, and a payload of three keys was published.
C11_Witness ==
    /\ pc = "run_sleep"
    /\ lastPub.kind = "telemetry"
    /\ metadata.power_current = Num(0)
    /\ metadata.power_total = NoValue
    /\ Len(mqtt_topics) = 3
    /\ state.power_current = Num(0)
    /\ state.power_total = NoValue
    /\ lastPub.payload[1] = <<"power_current", Num(0)>>
    /\ Len(lastPub.payload) = 3

\* C12: metadata and the state topic are set once, by the first reading, and
\* do not change; every telemetry publish goes to solismqtt/{serial} of the first
\* reading, the state_topic of every descriptor, whatever serial number a later
\* reading reports.
C12_StateTopicIsFixedByFirstReading ==
    /\ [][metadata # Unset =>
            (metadata' = metadata /\ state_topic' = state_topic)]_vars
    /\ [](metadata # Unset => state_topic = StateTopic(metadata.serial_number))
    /\ [](lastPub.kind = "telemetry" =>
            /\ lastPub.topic = <<"solismqtt", metadata.serial_number>>
            /\ \A i \in 1..Len(mqtt_topics) :
                  mqtt_topics[i].msg.state_topic = lastPub.topic)

\* A cycle whose reading reports another serial number than the first reading
\* has published its telemetry.
C12_Witness ==
    /\ pc = "run_sleep"
    /\ pubs = 1
    /\ lastPub.kind = "telemetry"
    /\ state.serial_number # metadata.serial_number

\* C13: a steady-state cycle issues exactly one poll and at most one publish;
\* the publish follows a successful poll only; a failed poll ends the cycle
\* without a publish and without a second poll; the next poll follows the sleep
\* of the poll interval, which is the same after every cycle.
C13_CyclesAreSequentialAndSingleShot ==
    /\ [](pc = "run_poll" => (polls = 0 /\ pubs = 0))
    /\ [](pc = "run_publish" => (polls = 1 /\ pubs = 0 /\ caught = None))
    /\ [](pc = "run_sleep" => (polls = 1 /\ pubs <= 1 /\ sleepFor = PollInterval))
    /\ [][(pc = "run_poll" /\ caught' # None) =>
            (pc' = "run_sleep" /\ pubs' = 0 /\ polls' = 1)]_vars
    /\ [][pubs' > pubs => (pc = "run_publish" /\ pc' = "run_sleep")]_vars
    /\ [][(pc' = "run_poll" /\ pc # "run_poll") =>
            (pc = "run_sleep" \/ pc = "disc_publish")]_vars

\* After a cycle that published, a cycle whose poll failed is in its sleep:
\* one poll, no publish.
C13_Witness ==
    /\ pc = "run_sleep"
    /\ caught = "IndexError"
    /\ polls = 1
    /\ pubs = 0
    /\ lastPub.kind = "telemetry"

\* C14: a disconnect notification, in any phase, is only logged: the main
\* thread keeps its position (no exit, no change of phase) and its next poll
\* remains possible.
C14_DisconnectIsOnlyLogged ==
    /\ [][(connState = "connected" /\ connState' = "connecting") =>
            (pc' = pc /\ Phase' = Phase /\ caught' = caught)]_vars
    /\ [](pc = "start_poll" => ENABLED StartPollOk)
    /\ [](pc = "run_poll" => ENABLED RunPollOk)
    /\ [](pc = "run_sleep" => ENABLED RunWake)

\* The session was lost after a telemetry message had been delivered and the
\* loop is at its next poll.
C14_Witness ==
    /\ connState = "connecting"
    /\ lastPub.kind = "telemetry"
    /\ lastPub.outcome = "published"
    /\ pc = "run_poll"
    /\ polls = 0

\* C15: the process exits only when the connect at startup fails or when the
\* operator interrupts it, and an interrupt in any phase, also during a poll or
\* a publish, ends the process.
C15_InterruptAlwaysExits ==
    /\ pc = "exited" => caught \in {"OSError", "KeyboardInterrupt"}
    /\ caught = "KeyboardInterrupt" => pc = "exited"

\* C16: every discovery descriptor is published with retain set, in every pass
\* of the batch; every telemetry message is published without retain.
C16_DiscoveryRetainedTelemetryNot ==
    lastPub.kind # "none" =>
        /\ (lastPub.kind = "discovery") = (lastPub.topic[1] = "homeassistant")
        /\ (lastPub.kind = "telemetry") = (lastPub.topic[1] = "solismqtt")
        /\ lastPub.retain = (lastPub.topic[1] = "homeassistant")

\* A later pass of the batch: its first descriptor was published with retain
\* while the broker already holds the second from an earlier pass.
C16_Witness ==
    /\ pc = "disc_publish"
    /\ idx = 2
    /\ lastPub.kind = "discovery"
    /\ lastPub.topic = mqtt_topics[1].topic
    /\ lastPub.retain
    /\ mqtt_topics[2].topic \in delivered

\* Units that are not in the sensor table.
OtherUnits == {"V", "kW", "C", ""}

\* C17: the availability policy of a descriptor follows from the unit alone:
\* kWh gives total_increasing / "0" / "latest"; W and degC give measurement /
\* "120" / "any"; any other unit fails the assertion, no descriptor is made.
C17_AvailabilityPolicyFollowsUnit ==
    metadata # Unset =>
        /\ \A i \in 1..Len(mqtt_topics) :
              LET msg == mqtt_topics[i].msg IN
              /\ msg.unit_of_measurement \in {"kWh", "W", "degC"}
              /\ msg.unit_of_measurement = SensorInfo(mqtt_topics[i].topic[4]).unit
              /\ msg.unit_of_measurement = "kWh" =>
                    /\ msg.state_class = "total_increasing"
                    /\ msg.expire_after = "0"
                    /\ msg.availability_mode = "latest"
              /\ msg.unit_of_measurement # "kWh" =>
                    /\ msg.state_class = "measurement"
                    /\ msg.expire_after = "120"
                    /\ msg.availability_mode = "any"
        /\ \A u \in OtherUnits, i \in 1..Len(SensorKeys) :
              make_ha_topic(metadata, SensorKeys[i], SensorInfo(SensorKeys[i]).name, u)
                 = "AssertionError"

\* The first reading carries all four sensors: descriptors of both policies.
C17_Witness ==
    /\ Len(mqtt_topics) = 4
    /\ mqtt_topics[1].msg.availability_mode = "any"
    /\ mqtt_topics[2].msg.availability_mode = "latest"
    /\ mqtt_topics[4].msg.unit_of_measurement = "degC"

\* C18: read_inverter rejects a record whose number of fields is not 8: the
\* poll fails and no reading is returned.
C18_WrongFieldCountIsRejected ==
    [][((pc = "start_poll" \/ pc = "run_poll") /\ pc' # pc /\ fields' # 8) =>
          (caught' # None /\ (pc' = "start_sleep" \/ pc' = "run_sleep"))]_vars

\* C19: the descriptors are built once, from the first reading; every pass of
\* the discovery batch publishes these descriptors in their order, starting
\* again at the first, and no poll is issued from the poll that ends Starting
\* to the first steady-state cycle.
C19_RetriesRepublishTheSameDescriptors ==
    /\ [](Phase = "Discovering" => mqtt_topics = BuildTopics(metadata))
    /\ [][Phase = "Discovering" =>
            /\ Phase' = "Discovering" \/ pc' = "run_poll" \/ pc' = "exited"
            /\ mqtt_topics' = mqtt_topics
            /\ metadata' = metadata
            /\ fields' = fields]_vars
    /\ [][(pc = "disc_publish" /\ lastPub' # lastPub) =>
            /\ lastPub'.topic = mqtt_topics[idx].topic
            /\ lastPub'.payload = mqtt_topics[idx].msg
            /\ (pc' = "disc_publish" => idx' = idx + 1)]_vars
    /\ [][(pc = "disc_sleep" /\ pc' = "disc_publish") => idx' = 1]_vars
    /\ [](pc = "disc_publish" => idx \in 1..Len(mqtt_topics))

\* A new pass starts at the first descriptor while the broker holds descriptors
\* of an earlier pass.
C19_Witness ==
    /\ pc = "disc_publish"
    /\ idx = 1
    /\ delivered # {}
    /\ lastPub.kind = "discovery"
    /\ lastPub.outcome = "ValueError"

====
